---- MODULE Spec2Model ----
(***************************************************************************)
(* Model of 0x02-redis_basic/exercise.py: the Cache facade over a Redis    *)
(* store, its two instrumentation decorators (count_calls, call_history)   *)
(* and the replay utility.                                                 *)
(*                                                                         *)
(* Python objects are records tagged by the field t.  Text is a sequence   *)
(* of code points, bytes a sequence of numbers below 256.  The store keeps *)
(* bytes only, so every value passes through the client's encoder on the   *)
(* way in and through a decoder on the way out.                            *)
(***************************************************************************)
EXTENDS Integers, Sequences, FiniteSets, TLC

(* ------------------------------ bounds -------------------------------- *)

\* Number of keys uuid.uuid4() can hand out in one run, hence the number of
\* store invocations that reach the body of Cache.store.
MaxKeys == 3

\* Number of threads of control that may use the Cache at the same time.
MaxCallers == 2

(* --------------------------- Python objects --------------------------- *)

None == [t |-> "None"]

PyStr(s) == [t |-> "str", s |-> s]

PyBytes(b) == [t |-> "bytes", b |-> b]

PyInt(n) == [t |-> "int", n |-> n]

\* A float with one decimal digit: whole.tenth, sign carried by neg.
PyFloat(neg, whole, tenth) == [t |-> "float", neg |-> neg, whole |-> whole, tenth |-> tenth]

\* The outcome of a call that raised instead of returning.
Raised(e) == [t |-> "raise", exc |-> e]

\* The values store() is called with, one of every supported type:
\* 'é' (text outside ASCII), b'\xff' (bytes that are no UTF-8), -12, 1.5
Values ==
    { PyStr(<<233>>), PyBytes(<<255>>), PyInt(-12), PyFloat(FALSE, 1, 5) }

(* ------------------------- text and byte helpers ---------------------- *)

RECURSIVE NatToStr(_)
\* str(n) for n >= 0: the decimal digits, most significant first.
NatToStr(n) ==
    IF n < 10 THEN <<48 + n>>
    ELSE NatToStr(n \div 10) \o <<48 + (n % 10)>>

\* str(n) / repr(n) of an int.
IntToStr(n) == IF n < 0 THEN <<45>> \o NatToStr(0 - n) ELSE NatToStr(n)

\* One hexadecimal digit, lower case, as repr() of bytes writes it.
HexDigit(d) == IF d < 10 THEN 48 + d ELSE 87 + d

RECURSIVE Utf8Encode(_)
\* str.encode('utf-8') for code points below 65536.
Utf8Encode(s) ==
    IF s = <<>> THEN <<>>
    ELSE LET cp == Head(s)
             first == IF cp < 128 THEN <<cp>>
                      ELSE IF cp < 2048
                           THEN <<192 + (cp \div 64), 128 + (cp % 64)>>
                           ELSE <<224 + (cp \div 4096),
                                  128 + ((cp \div 64) % 64),
                                  128 + (cp % 64)>>
         IN  first \o Utf8Encode(Tail(s))

IsCont(b) == b >= 128 /\ b < 192

RECURSIVE Utf8Decode(_)
\* bytes.decode('utf-8'): the text, or Raised("UnicodeDecodeError").
Utf8Decode(b) ==
    IF b = <<>> THEN PyStr(<<>>)
    ELSE LET b1 == Head(b)
             n  == IF b1 < 128 THEN 1
                   ELSE IF b1 >= 194 /\ b1 < 224 THEN 2
                   ELSE IF b1 >= 224 /\ b1 < 240 THEN 3
                   ELSE 0
         IN  IF n = 0 \/ Len(b) < n
                \/ (n >= 2 /\ ~IsCont(b[2]))
                \/ (n = 3 /\ ~IsCont(b[3]))
             THEN Raised("UnicodeDecodeError")
             ELSE LET cp == IF n = 1 THEN b1
                            ELSE IF n = 2 THEN (b1 - 192) * 64 + (b[2] - 128)
                            ELSE (b1 - 224) * 4096 + (b[2] - 128) * 64 + (b[3] - 128)
                      rest == Utf8Decode(SubSeq(b, n + 1, Len(b)))
                  IN  IF n = 3 /\ cp < 2048 THEN Raised("UnicodeDecodeError")
                      ELSE IF rest.t = "raise" THEN rest
                      ELSE PyStr(<<cp>> \o rest.s)

IsDigit(b) == b >= 48 /\ b <= 57

IsSpace(b) == b = 32 \/ (b >= 9 /\ b <= 13)

RECURSIVE DigitsValue(_, _)
\* The number the decimal digits of b spell, continuing from acc.
DigitsValue(b, acc) ==
    IF b = <<>> THEN acc
    ELSE DigitsValue(Tail(b), acc * 10 + (Head(b) - 48))

RECURSIVE StripLeft(_)
StripLeft(b) == IF b # <<>> /\ IsSpace(Head(b)) THEN StripLeft(Tail(b)) ELSE b

RECURSIVE StripRight(_)
StripRight(b) ==
    IF b # <<>> /\ IsSpace(b[Len(b)]) THEN StripRight(SubSeq(b, 1, Len(b) - 1)) ELSE b

\* int(x) for x bytes: surrounding white space, an optional sign, decimal
\* digits (digit-group underscores are not modelled); anything else raises
\* ValueError.  int(None) raises TypeError.
ParseInt(x) ==
    IF x.t # "bytes" THEN Raised("TypeError")
    ELSE LET s == StripRight(StripLeft(x.b))
             signed == s # <<>> /\ Head(s) \in {43, 45}
             d == IF signed THEN Tail(s) ELSE s
         IN  IF d = <<>> \/ \E i \in 1..Len(d) : ~IsDigit(d[i])
             THEN Raised("ValueError")
             ELSE IF signed /\ Head(s) = 45
                  THEN PyInt(0 - DigitsValue(d, 0))
                  ELSE PyInt(DigitsValue(d, 0))

RECURSIVE BytesReprBody(_)
\* The inside of repr(b'...'): printable ASCII as itself, the rest as \xhh.
BytesReprBody(b) ==
    IF b = <<>> THEN <<>>
    ELSE LET c == Head(b)
             one == IF c = 92 \/ c = 39 THEN <<92, c>>
                    ELSE IF c >= 32 /\ c < 127 THEN <<c>>
                    ELSE <<92, 120, HexDigit(c \div 16), HexDigit(c % 16)>>
         IN  one \o BytesReprBody(Tail(b))

\* repr(float) for the one-decimal floats of the model.
FloatRepr(x) ==
    (IF x.neg THEN <<45>> ELSE <<>>) \o NatToStr(x.whole) \o <<46>> \o NatToStr(x.tenth)

\* repr(x) of a supported value (text without quotes, backslashes or
\* unprintable characters, which is all the model stores).
Repr(x) ==
    CASE x.t = "str"   -> <<39>> \o x.s \o <<39>>
      [] x.t = "bytes" -> <<98, 39>> \o BytesReprBody(x.b) \o <<39>>
      [] x.t = "int"   -> IntToStr(x.n)
      [] x.t = "float" -> FloatRepr(x)

\* str(args) of the tuple of positional arguments: "()" or "(<repr>,)".
StrArgs(args) ==
    IF args = <<>> THEN PyStr(<<40, 41>>)
    ELSE PyStr(<<40>> \o Repr(args[1]) \o <<44, 41>>)

\* What the store client sends for a value: bytes as they are, text as
\* UTF-8, numbers as the UTF-8 of their repr.
Encode(x) ==
    CASE x.t = "bytes" -> x.b
      [] x.t = "str"   -> Utf8Encode(x.s)
      [] x.t = "int"   -> Utf8Encode(IntToStr(x.n))
      [] x.t = "float" -> Utf8Encode(FloatRepr(x))

(* ------------------------------ key names ----------------------------- *)

\* method.__qualname__ of the decorated method: 'Cache.store'.
QualName == PyStr(<<67, 97, 99, 104, 101, 46, 115, 116, 111, 114, 101>>)

\* '{}:inputs'.format(method.__qualname__)
InKey(name) == PyStr(name.s \o <<58, 105, 110, 112, 117, 116, 115>>)

\* '{}:outputs'.format(method.__qualname__)
OutKey(name) == PyStr(name.s \o <<58, 111, 117, 116, 112, 117, 116, 115>>)

\* Mutant of Uuid: one identifier, generated once, serves every call.
UuidOnce(i) == PyStr(<<117, 49>>)

\* str(uuid.uuid4()): the i-th identifier the generator hands out, written
\* "u<i>" (a real one is 36 characters; only its uniqueness matters here).
Uuid(i) == PyStr(<<117>> \o NatToStr(i))

UUIDs == { Uuid(i) : i \in 1..MaxKeys }

\* Every key name a caller of get() is given in the model.
KeyNames == UUIDs \cup { QualName, InKey(QualName), OutKey(QualName) }

(* --------------------------- the store client -------------------------- *)

\* A key of the store holds nothing, a string of bytes, or a list of them.
Absent == [t |-> "absent"]

StringEntry(b) == [t |-> "string", b |-> b]

ListEntry(l) == [t |-> "list", l |-> l]

\* The bytes the client sends for each key name.
KeyBytes == [k \in KeyNames |-> Encode(k)]

EmptyDb == [k \in { KeyBytes[n] : n \in KeyNames } |-> Absent]

\* redis.Redis.set(key, value)
RedisSet(d, key, value) == [d EXCEPT ![KeyBytes[key]] = StringEntry(Encode(value))]

\* redis.Redis.get(key): bytes, None for no such key, an error for a list.
RedisGet(d, key) ==
    LET e == d[KeyBytes[key]]
    IN  CASE e.t = "absent" -> None
          [] e.t = "string" -> PyBytes(e.b)
          [] e.t = "list"   -> Raised("ResponseError")

\* redis.Redis.incr(name): the number held under name (0 for no such key)
\* plus one, written back as its decimal digits.
RedisIncr(d, key) ==
    LET e == d[KeyBytes[key]]
        old == IF e.t = "absent" THEN PyInt(0) ELSE ParseInt(PyBytes(e.b))
    IN  [d EXCEPT ![KeyBytes[key]] = StringEntry(Encode(PyInt(old.n + 1)))]

\* Mutant of RedisRpush: the value replaces what the list held.
RedisRpushReplace(d, key, value) ==
    [d EXCEPT ![KeyBytes[key]] = ListEntry(<<Encode(value)>>)]

\* Mutant of RedisRpush: the value goes to the head of the list (lpush).
RedisLpush(d, key, value) ==
    LET e == d[KeyBytes[key]]
        old == IF e.t = "absent" THEN <<>> ELSE e.l
    IN  [d EXCEPT ![KeyBytes[key]] = ListEntry(<<Encode(value)>> \o old)]

\* redis.Redis.rpush(name, value): value appended at the tail of the list.
RedisRpush(d, key, value) ==
    LET e == d[KeyBytes[key]]
        old == IF e.t = "absent" THEN <<>> ELSE e.l
    IN  [d EXCEPT ![KeyBytes[key]] = ListEntry(Append(old, Encode(value)))]

\* redis.Redis.lrange(name, 0, -1): the whole list, empty for no such key.
RedisLrange(d, key) ==
    LET e == d[KeyBytes[key]]
    IN  IF e.t = "absent" THEN <<>> ELSE [i \in 1..Len(e.l) |-> PyBytes(e.l[i])]

\* redis.Redis.exists(name): the number of the named keys that exist.
RedisExists(d, key) == IF d[KeyBytes[key]].t = "absent" THEN 0 ELSE 1

\* Mutant of RedisFlushdb: only the string keys are removed.
RedisFlushStrings(d) == [k \in DOMAIN d |-> IF d[k].t = "string" THEN Absent ELSE d[k]]

\* redis.Redis.flushdb(True): every key of the database is gone.
RedisFlushdb(d) == [k \in DOMAIN d |-> Absent]

(* ------------------------------ the program --------------------------- *)

VARIABLES
    db,      \* the database of the store the handle self._redis talks to
    live,    \* isinstance(self._redis, redis.Redis)
    used,    \* how many identifiers uuid.uuid4() has handed out
    pc,      \* per caller: "idle", or the statement of a store invocation it is at
    frame,   \* per caller: the locals of its store invocation
    ret,     \* the outcome of the operation finished last, if nothing ran since
    calls,   \* history: the store invocations since the construction, in call order
    plain,   \* the undecorated Cache.store run beside the decorated one
    torn     \* history: a construction flushed the store under a running invocation

vars == <<db, live, used, pc, frame, ret, calls, plain, torn>>

Callers == 1..MaxCallers

\* The ways store is called: store(v) for every value, and store(data=v),
\* which leaves the tuple of positional arguments empty.
CallForms ==
    { [args |-> <<v>>, data |-> v] : v \in Values }
        \cup { [args |-> <<>>, data |-> PyStr(<<233>>)] }

NoFrame == [args |-> <<>>, data |-> None, output |-> None, und |-> None, idx |-> 0]

NoRet == [op |-> "none"]

\* The statements of a store invocation at which the store client is called.
Steps == {"rpush_in", "incr", "set", "rpush_out"}

\* Mutant of InvokerPushIn: the input is recorded twice.
InvokerPushInTwice(d, isLive, args) ==
    IF isLive
    THEN RedisRpush(RedisRpush(d, InKey(QualName), StrArgs(args)),
                    InKey(QualName), StrArgs(args))
    ELSE d

\* Mutant of InvokerPushIn: the input goes to the outputs list.
InvokerPushInToOutputs(d, isLive, args) ==
    IF isLive THEN RedisRpush(d, OutKey(QualName), StrArgs(args)) ELSE d

(* call_history.invoker, line 39-40: record the input *)
InvokerPushIn(d, isLive, args) ==
    IF isLive THEN RedisRpush(d, InKey(QualName), StrArgs(args)) ELSE d

\* Mutant of WrapperIncr: the liveness test is inverted.
WrapperIncrInverted(d, isLive) ==
    IF ~isLive THEN RedisIncr(d, QualName) ELSE d

\* Mutant of WrapperIncr: the call is counted twice.
WrapperIncrTwice(d, isLive) ==
    IF isLive THEN RedisIncr(RedisIncr(d, QualName), QualName) ELSE d

(* count_calls.wrapper, line 21-22: count the call *)
WrapperIncr(d, isLive) ==
    IF isLive THEN RedisIncr(d, QualName) ELSE d

\* Mutant of StoreBody: the value is written as its repr.
StoreBodyRepr(d, key, data) == [db |-> RedisSet(d, key, PyStr(Repr(data))), ret |-> key]

(* Cache.store, line 89-91, with the key uuid4 generated: the database *)
(* after the write and the value returned *)
StoreBody(d, key, data) == [db |-> RedisSet(d, key, data), ret |-> key]

\* Mutant of InvokerPushOut: the output goes to the inputs list.
InvokerPushOutToInputs(d, isLive, output) ==
    IF isLive THEN RedisRpush(d, InKey(QualName), output) ELSE d

(* call_history.invoker, line 42-43: record the output *)
InvokerPushOut(d, isLive, output) ==
    IF isLive THEN RedisRpush(d, OutKey(QualName), output) ELSE d

\* Mutant of InvokerReturn: the invoker forgets to return the output.
InvokerReturnNone(output) == None

(* call_history.invoker, line 44 *)
InvokerReturn(output) == output

(* The transforms get_str and get_int hand to get, "decode" and "int": *)
(* lambda x: x.decode('utf-8') and lambda x: int(x)                     *)
ApplyFn(fn, data) ==
    CASE fn = "decode" -> IF data.t = "bytes" THEN Utf8Decode(data.b)
                          ELSE Raised("AttributeError")
      [] fn = "int"    -> ParseInt(data)

\* Mutant of CacheGet: a missing key is an error.
CacheGetStrict(d, key, fn) ==
    LET data == RedisGet(d, key)
    IN  IF data.t = "raise" THEN data
        ELSE IF data = None THEN Raised("KeyError")
        ELSE IF fn # "None" THEN ApplyFn(fn, data) ELSE data

\* Mutant of CacheGet: a missing key is returned before the transform.
CacheGetShortCircuit(d, key, fn) ==
    LET data == RedisGet(d, key)
    IN  IF data.t = "raise" \/ data = None THEN data
        ELSE IF fn # "None" THEN ApplyFn(fn, data) ELSE data

(* Cache.get, line 101-102; fn is "None" for no transform *)
CacheGet(d, key, fn) ==
    LET data == RedisGet(d, key)
    IN  IF data.t = "raise" THEN data
        ELSE IF fn # "None" THEN ApplyFn(fn, data) ELSE data

(* Cache.get_str, line 108 *)
CacheGetStr(d, key) == CacheGet(d, key, "decode")

(* Cache.get_int, line 114 *)
CacheGetInt(d, key) == CacheGet(d, key, "int")

\* Mutant of ReplayCount: the count starts at one.
ReplayCountFromOne(d, name) ==
    IF RedisExists(d, name) # 0 THEN ParseInt(RedisGet(d, name)) ELSE PyInt(1)

(* replay, line 52-71: the lines printed, in order.  handle is "None" for *)
(* fn None, "function" for a function with no __self__ (Cache.store), and *)
(* "method" for the bound method cache.store.                             *)
ReplayCount(d, name) ==
    IF RedisExists(d, name) # 0 THEN ParseInt(RedisGet(d, name)) ELSE PyInt(0)

\* '{} was called {} times:'.format(fcn_name, fcn_call_count)
ReplayHeader(name, count) ==
    PyStr(name.s \o <<32, 119, 97, 115, 32, 99, 97, 108, 108, 101, 100, 32>>
          \o IntToStr(count) \o <<32, 116, 105, 109, 101, 115, 58>>)

\* The transcript line of one invocation: the name, an opening parenthesis
\* and a star, the decoded input, a closing parenthesis, ' -> ', the output.
ReplayLine(name, input, output) ==
    LET txt == Utf8Decode(input.b)
    IN  IF txt.t = "raise" THEN txt
        ELSE PyStr(name.s \o <<40, 42>> \o txt.s \o <<41, 32, 45, 62, 32>> \o Repr(output))

Min(a, b) == IF a < b THEN a ELSE b

\* zip(fcn_inputs, fcn_outputs): as many pairs as the shorter list has.
Zip(xs, ys) == [i \in 1..Min(Len(xs), Len(ys)) |-> <<xs[i], ys[i]>>]

\* Mutant of ReplayPrinted: the owner's handle is not tested for liveness.
ReplayPrintedNoLiveTest(d, isLive, handle) ==
    IF handle # "method" THEN <<>>
    ELSE LET name == QualName
             count == ReplayCount(d, name)
             pairs == Zip(RedisLrange(d, InKey(name)), RedisLrange(d, OutKey(name)))
         IN  <<ReplayHeader(name, count.n)>>
                 \o [i \in 1..Len(pairs) |-> ReplayLine(name, pairs[i][1], pairs[i][2])]

\* Mutant of ReplayPrinted: the header counts the transcript lines.
ReplayPrintedCountsLines(d, isLive, handle) ==
    IF handle # "method" THEN <<>>
    ELSE IF ~isLive THEN <<>>
    ELSE LET name == QualName
             pairs == Zip(RedisLrange(d, InKey(name)), RedisLrange(d, OutKey(name)))
         IN  <<ReplayHeader(name, Len(pairs))>>
                 \o [i \in 1..Len(pairs) |-> ReplayLine(name, pairs[i][1], pairs[i][2])]

ReplayPrinted(d, isLive, handle) ==
    IF handle # "method" THEN <<>>
    ELSE IF ~isLive THEN <<>>
    ELSE LET name == QualName
             count == ReplayCount(d, name)
             pairs == Zip(RedisLrange(d, InKey(name)), RedisLrange(d, OutKey(name)))
         IN  <<ReplayHeader(name, count.n)>>
                 \o [i \in 1..Len(pairs) |-> ReplayLine(name, pairs[i][1], pairs[i][2])]

\* replay, line 52-65: the store-client calls replay issues, in order.
ReplayIssued(d, isLive, handle) ==
    IF handle # "method" THEN <<>>
    ELSE IF ~isLive THEN <<>>
    ELSE <<"exists">>
            \o (IF RedisExists(d, QualName) # 0 THEN <<"get">> ELSE <<>>)
            \o <<"lrange", "lrange">>

Handles == {"None", "function", "method"}

(* ------------------------------- actions ------------------------------ *)

Running(c) == pc[c] # "idle"

\* Invocations that have not drawn their key yet.
Pending == { c \in Callers : pc[c] \in {"rpush_in", "incr", "set"} }

\* History: the key names that hold something in d.
Present(d) == { k \in KeyNames : d[KeyBytes[k]] # Absent }

(* Cache.__init__, line 80-81 *)
Construct(c) ==
    /\ pc[c] = "idle"
    /\ live' = TRUE
    /\ db' = RedisFlushdb(db)
    /\ plain' = RedisFlushdb(plain)
    /\ calls' = <<>>
    /\ frame' = [d \in Callers |-> [frame[d] EXCEPT !.idx = 0]]
    /\ torn' = (\E d \in Callers : Running(d))
    /\ ret' = [op |-> "init", wiped |-> Present(db)]
    /\ UNCHANGED <<used, pc>>

(* cache.store(...) entered: call_history.invoker, line 33-38 *)
InvokerEnter(c, call) ==
    /\ pc[c] = "idle"
    /\ used + Cardinality(Pending) < MaxKeys
    /\ Len(calls) < MaxKeys
    /\ frame' = [frame EXCEPT ![c] = [args |-> call.args, data |-> call.data,
                                      output |-> None, und |-> None,
                                      idx |-> Len(calls) + 1]]
    /\ calls' = Append(calls, [c |-> c, args |-> call.args, data |-> call.data,
                               ret |-> None])
    /\ pc' = [pc EXCEPT ![c] = "rpush_in"]
    /\ ret' = NoRet
    /\ UNCHANGED <<db, live, used, plain, torn>>

(* call_history.invoker, line 39-40 *)
InvokerRpushIn(c) ==
    /\ pc[c] = "rpush_in"
    /\ db' = InvokerPushIn(db, live, frame[c].args)
    /\ pc' = [pc EXCEPT ![c] = "incr"]
    /\ ret' = NoRet
    /\ UNCHANGED <<live, used, frame, calls, plain, torn>>

(* count_calls.wrapper, line 21-22 *)
WrapperCount(c) ==
    /\ pc[c] = "incr"
    /\ db' = WrapperIncr(db, live)
    /\ pc' = [pc EXCEPT ![c] = "set"]
    /\ ret' = NoRet
    /\ UNCHANGED <<live, used, frame, calls, plain, torn>>

(* Cache.store, line 89-91, reached through line 23 and line 41; the same *)
(* body runs undecorated on plain with the same key *)
StoreCall(c) ==
    /\ pc[c] = "set"
    /\ used < MaxKeys
    /\ LET key == Uuid(used + 1)
           res == StoreBody(db, key, frame[c].data)
           und == StoreBody(plain, key, frame[c].data)
       IN  /\ db' = res.db
           /\ frame' = [frame EXCEPT ![c].output = res.ret, ![c].und = und.ret]
           /\ plain' = und.db
    /\ used' = used + 1
    /\ pc' = [pc EXCEPT ![c] = "rpush_out"]
    /\ ret' = NoRet
    /\ UNCHANGED <<live, calls, torn>>

\* calls with the outcome of invocation i filled in (i = 0: not in calls).
Outcome(cs, i, r) == IF i = 0 THEN cs ELSE [cs EXCEPT ![i].ret = r]

(* call_history.invoker, line 42-44 *)
InvokerRpushOut(c) ==
    /\ pc[c] = "rpush_out"
    /\ db' = InvokerPushOut(db, live, frame[c].output)
    /\ ret' = [op |-> "store", val |-> InvokerReturn(frame[c].output),
                und |-> frame[c].und]
    /\ calls' = Outcome(calls, frame[c].idx, InvokerReturn(frame[c].output))
    /\ pc' = [pc EXCEPT ![c] = "idle"]
    /\ frame' = [frame EXCEPT ![c] = NoFrame]
    /\ UNCHANGED <<live, used, plain, torn>>

(* A store-client call of a store invocation raises (the connection is   *)
(* lost): line 40, 22, 90 or 43.  Nothing catches it, so the invocation   *)
(* ends there.  Line 40, 22 and 43 call the client on a live handle only. *)
ClientError(c) ==
    /\ pc[c] \in Steps
    /\ live \/ pc[c] = "set"
    /\ ret' = [op |-> "store", val |-> Raised("ConnectionError"), at |-> pc[c]]
    /\ calls' = Outcome(calls, frame[c].idx,
                        [t |-> "raise", exc |-> "ConnectionError", at |-> pc[c]])
    /\ pc' = [pc EXCEPT ![c] = "idle"]
    /\ frame' = [frame EXCEPT ![c] = NoFrame]
    /\ UNCHANGED <<db, live, used, plain, torn>>

(* Cache.get(key), line 93-102 *)
Get(c, key) ==
    /\ pc[c] = "idle"
    /\ ret' = [op |-> "get", key |-> key, val |-> CacheGet(db, key, "None")]
    /\ UNCHANGED <<db, live, used, pc, frame, calls, plain, torn>>

(* Cache.get_str(key), line 104-108 *)
GetStr(c, key) ==
    /\ pc[c] = "idle"
    /\ ret' = [op |-> "get_str", key |-> key, val |-> CacheGetStr(db, key)]
    /\ UNCHANGED <<db, live, used, pc, frame, calls, plain, torn>>

(* Cache.get_int(key), line 110-114 *)
GetInt(c, key) ==
    /\ pc[c] = "idle"
    /\ ret' = [op |-> "get_int", key |-> key, val |-> CacheGetInt(db, key)]
    /\ UNCHANGED <<db, live, used, pc, frame, calls, plain, torn>>

(* replay(fn), line 48-71 *)
Replay(c, handle) ==
    /\ pc[c] = "idle"
    /\ ret' = [op |-> "replay", handle |-> handle,
                printed |-> ReplayPrinted(db, live, handle),
                issued |-> ReplayIssued(db, live, handle)]
    /\ UNCHANGED <<db, live, used, pc, frame, calls, plain, torn>>

(* --------------------------- specifications --------------------------- *)

\* The state after Cache(): an empty database.  live is FALSE for a Cache
\* whose _redis was replaced by a stand-in that is no redis.Redis.
Init ==
    /\ db = EmptyDb
    /\ live \in BOOLEAN
    /\ used = 0
    /\ pc = [c \in Callers |-> "idle"]
    /\ frame = [c \in Callers |-> NoFrame]
    /\ ret = NoRet
    /\ calls = <<>>
    /\ plain = EmptyDb
    /\ torn = FALSE

\* The statements of a store invocation, none of them failing; the call is
\* one of forms.
StoreStep(c, forms) ==
    \/ \E call \in forms : InvokerEnter(c, call)
    \/ InvokerRpushIn(c)
    \/ WrapperCount(c)
    \/ StoreCall(c)
    \/ InvokerRpushOut(c)

\* The operations that only read the store, on the keys of keys.
ReadStep(c, keys) ==
    \/ \E key \in keys : Get(c, key)
    \/ \E key \in keys : GetStr(c, key)
    \/ \E key \in keys : GetInt(c, key)
    \/ \E handle \in Handles : Replay(c, handle)

\* Sequential use: one thread of control, no store-client call fails.
Next ==
    \/ Construct(1)
    \/ StoreStep(1, CallForms)
    \/ ReadStep(1, KeyNames)

Spec == Init /\ [][Next]_vars

\* The call forms and keys of the specifications with failing calls or
\* several callers: store(-12) and store(data='é'); the first key handed
\* out and the counter key.
FewForms == { c \in CallForms : c.data \in {PyInt(-12), PyStr(<<233>>)} /\ (c.args = <<>> <=> c.data.t = "str") }

FewKeys == { Uuid(1), QualName }

\* Sequential use over a store client whose calls may fail.
FailNext ==
    \/ Construct(1)
    \/ StoreStep(1, FewForms)
    \/ ClientError(1)
    \/ ReadStep(1, FewKeys)

FailSpec == Init /\ [][FailNext]_vars

\* Concurrent callers sharing the one store, each with its own argument:
\* caller 1 calls store(data='é'), every other caller store(-12).
ConcForms(c) == { f \in FewForms : (f.args = <<>>) <=> (c = 1) }

ConcNext == \E c \in Callers : Construct(c) \/ StoreStep(c, ConcForms(c))

ConcSpec == Init /\ [][ConcNext]_vars

\* The invocations since the construction that a failing client call ended.
Failed == { i \in 1..Len(calls) : calls[i].ret.t = "raise" }

\* No store invocation is in progress.
Quiet == \A c \in Callers : ~Running(c)

\* The client calls that may fail: any of the first caller's, and of the
\* other callers' the first to fail since the construction.
MayFail(c) == c = 1 \/ Failed = {}

\* Concurrent callers over a store client whose calls may fail; a Cache is
\* constructed only while no store invocation is in progress.
ConcFailNext ==
    \E c \in Callers :
        \/ Quiet /\ Construct(c)
        \/ StoreStep(c, ConcForms(c))
        \/ MayFail(c) /\ ClientError(c)

ConcFailSpec == Init /\ [][ConcFailNext]_vars

(* ------------------------------- claims -------------------------------- *)

\* The two history lists as replay reads them.
Inputs == RedisLrange(db, InKey(QualName))

Outputs == RedisLrange(db, OutKey(QualName))

\* The number replay reports for the counter key (0 for no such key).
Counter == ReplayCount(db, QualName).n

\* Invocation i of calls has returned a key.
Returned(i) == calls[i].ret.t = "str"

\* C1: on a Cache with a live connection used sequentially, the counter
\* under 'Cache.store' equals the number of store invocations made since
\* the construction; an invocation raises it by one, at its wrapper
\* statement, so it is one short only while the latest invocation has not
\* yet passed that statement.
C1_CounterEqualsCalls ==
    live => Counter = Len(calls) - (IF pc[1] \in {"rpush_in", "incr"} THEN 1 ELSE 0)

C1_Witness ==
    live /\ pc[1] = "idle" /\ Len(calls) = MaxKeys /\ Counter = MaxKeys

\* C2: on a live Cache used sequentially, after N completed store
\* invocations both history lists have length N, entry i of the inputs
\* list is str(args) of invocation i and entry i of the outputs list is
\* the key invocation i returned.
C2_HistoryInCallOrder ==
    (live /\ pc[1] = "idle") =>
        /\ Len(Inputs) = Len(calls)
        /\ Len(Outputs) = Len(calls)
        /\ \A i \in 1..Len(calls) :
              /\ Returned(i)
              /\ Inputs[i] = PyBytes(Utf8Encode(StrArgs(calls[i].args).s))
              /\ Outputs[i] = PyBytes(Utf8Encode(calls[i].ret.s))

\* Three invocations, the second being store(-12): its entry reads (-12,)
C2_Witness ==
    /\ live /\ pc[1] = "idle" /\ Len(calls) = 3
    /\ calls[2].args = <<PyInt(-12)>>
    /\ calls[1].args # calls[2].args
    /\ Inputs[2] = PyBytes(<<40, 45, 49, 50, 44, 41>>)
    /\ Outputs[2] = PyBytes(<<117, 50>>)

\* Invocations of calls that a failing store-client call ended after their
\* input had been appended (the failing call came after line 40).
AbortedAfterInput ==
    { i \in 1..Len(calls) : calls[i].ret.t = "raise" /\ calls[i].ret.at # "rpush_in" }

\* C3 as stated: whenever no store invocation is in progress, the inputs
\* list and the outputs list have the same length.
C3_Original == pc[1] = "idle" => Len(Inputs) = Len(Outputs)

\* C3 as amended: in sequential use, whenever no store invocation is in
\* progress, the inputs list is longer than the outputs list by the number
\* of invocations since the construction that an error ended after their
\* input was appended; the lengths are equal when there was none.
C3_LengthsDifferByAborts ==
    pc[1] = "idle" =>
        Len(Inputs) = Len(Outputs) + (IF live THEN Cardinality(AbortedAfterInput) ELSE 0)

\* An invocation ended by an error, then one that returned.
C3_Witness ==
    /\ pc[1] = "idle" /\ live /\ Len(calls) = 2
    /\ AbortedAfterInput = {1} /\ Returned(2)
    /\ Len(Inputs) = 2 /\ Len(Outputs) = 1

\* C4: as long as no Cache is constructed in between, every key a store
\* invocation returned reads back as the value stored under it: get gives
\* the bytes the client encodes the value to, get_str gives the text back
\* for a text value, get_int the number back for an integer value; and a
\* fetch that was made returned just that.
C4_RoundTrip ==
    \A i \in 1..Len(calls) :
        Returned(i) =>
            LET k == calls[i].ret
                v == calls[i].data
            IN  /\ CacheGet(db, k, "None") = PyBytes(Encode(v))
                /\ v.t = "str" => CacheGetStr(db, k) = v
                /\ v.t = "int" => CacheGetInt(db, k) = v
                /\ (ret.op = "get" /\ ret.key = k) => ret.val = PyBytes(Encode(v))
                /\ (ret.op = "get_str" /\ ret.key = k /\ v.t = "str") => ret.val = v
                /\ (ret.op = "get_int" /\ ret.key = k /\ v.t = "int") => ret.val = v

\* get_str of the first of three keys gave back the text 'é' stored under
\* it as the two bytes C3 A9.
C4_Witness ==
    /\ Len(calls) = 3 /\ Returned(3)
    /\ calls[1].data = PyStr(<<233>>)
    /\ db[Encode(calls[1].ret)] = StringEntry(<<195, 169>>)
    /\ ret = [op |-> "get_str", key |-> calls[1].ret, val |-> PyStr(<<233>>)]

\* C5: right after a construction every key reads as absent, whatever the
\* store held before: get returns None for every key, the counter key does
\* not exist and reads as zero, and both history lists are empty.
C5_ConstructWipes ==
    ret.op = "init" =>
        /\ \A k \in KeyNames : CacheGet(db, k, "None") = None
        /\ RedisExists(db, QualName) = 0
        /\ Counter = 0
        /\ Inputs = <<>>
        /\ Outputs = <<>>

\* The construction wiped two data keys, the counter and both lists.
C5_Witness ==
    /\ ret.op = "init"
    /\ ret.wiped = {Uuid(1), Uuid(2), QualName, InKey(QualName), OutKey(QualName)}

\* C6: get(key) with no transform on a key that is not in the store
\* returns None and leaves the store as it was (a step that ends with the
\* outcome of a get is a step of Cache.get).
C6_GetAbsentIsNone ==
    [][(ret'.op = "get" /\ RedisExists(db, ret'.key) = 0)
          => (ret'.val = None /\ db' = db)]_vars

\* get of a key never handed out, while another key is in the store.
C6_Witness ==
    /\ ret.op = "get" /\ ret.val = None
    /\ RedisExists(db, ret.key) = 0
    /\ RedisExists(db, Uuid(1)) = 1

\* C7: get_str(key) and get_int(key) on a key that is not in the store
\* hand None to their transform, which raises (AttributeError for the
\* decode, TypeError for int); they never return None, and the store is
\* left as it was.
C7_TransformOnAbsentRaises ==
    [][/\ (ret'.op = "get_str" /\ RedisExists(db, ret'.key) = 0)
            => (ret'.val = Raised("AttributeError") /\ db' = db)
       /\ (ret'.op = "get_int" /\ RedisExists(db, ret'.key) = 0)
            => (ret'.val = Raised("TypeError") /\ db' = db)]_vars

C7_Witness ==
    /\ ret.op = "get_int" /\ ret.val = Raised("TypeError")
    /\ RedisExists(db, ret.key) = 0
    /\ RedisExists(db, Uuid(1)) = 1

\* What invocation i of calls is expected to leave in the inputs list and,
\* once it returned a key, in the outputs list.
InputOf(i) == PyBytes(Utf8Encode(StrArgs(calls[i].args).s))

OutputOf(i) == PyBytes(Utf8Encode(calls[i].ret.s))

\* Two invocations by different callers have both returned, on a live
\* handle, with no construction under them.
TwoDone ==
    /\ live /\ ~torn
    /\ \A c \in Callers : pc[c] = "idle"
    /\ Len(calls) = 2 /\ Returned(1) /\ Returned(2)
    /\ calls[1].c # calls[2].c

\* C8: with two store invocations interleaved, the two lists hold the two
\* inputs and the two returned keys, each list in the order its appends
\* happened, and the two orders are independent: besides the matched
\* pairing there is the crossed one, where an index pairs the arguments of
\* one invocation with the key returned by the other (the witness).
C8_MatchedOrCrossed ==
    TwoDone =>
        \E a, b \in {1, 2} :
            /\ Inputs = <<InputOf(a), InputOf(3 - a)>>
            /\ Outputs = <<OutputOf(b), OutputOf(3 - b)>>

\* Index 1 holds the arguments of the first invocation and the key the
\* second one returned.
C8_Witness ==
    /\ TwoDone
    /\ InputOf(1) # InputOf(2)
    /\ Inputs[1] = InputOf(1)
    /\ Outputs[1] = OutputOf(2)

\* C9: the decorators only add side effects.  The decorated store and the
\* undecorated body, run on the same arguments with the same keys, leave
\* the same value under every data key and return the same key; the stores
\* differ in the counter key and the two lists only.  On a handle that is
\* no live connection nothing is counted or recorded, and the body still
\* runs and its key is returned.
C9_DecoratorsOnlyAddSideEffects ==
    /\ \A k \in UUIDs : db[Encode(k)] = plain[Encode(k)]
    /\ \A k \in KeyNames \ UUIDs : plain[Encode(k)] = Absent
    /\ ret.op = "store" =>
          /\ ret.val = ret.und
          /\ ret.val \in UUIDs
          /\ db[Encode(ret.val)] # Absent
    /\ ~live => db = plain

\* A decorated invocation returned the second key; the stores differ.
C9_Witness ==
    /\ live /\ ret.op = "store" /\ ret.val = Uuid(2)
    /\ ret.und = Uuid(2)
    /\ db # plain
    /\ db[Encode(Uuid(2))] = plain[Encode(Uuid(2))]

\* C10: replay of cache.store on a live Cache whose store was never invoked
\* since the construction prints the one line
\* "Cache.store was called 0 times:" and nothing else.
C10_ReplayOfNoCalls ==
    (ret.op = "replay" /\ ret.handle = "method" /\ live /\ Len(calls) = 0) =>
        ret.printed =
            << PyStr(<<67, 97, 99, 104, 101, 46, 115, 116, 111, 114, 101,
                       32, 119, 97, 115, 32, 99, 97, 108, 108, 101, 100, 32,
                       48, 32, 116, 105, 109, 101, 115, 58>>) >>

\* The replay came after a construction that followed earlier invocations.
C10_Witness ==
    /\ ret.op = "replay" /\ ret.handle = "method" /\ live
    /\ Len(calls) = 0 /\ used = 2
    /\ Len(ret.printed) = 1

\* C11: replay of None, of a function that has no owner, or of a method
\* whose owner's handle is no live connection does nothing: it prints
\* nothing (no line, no error), calls the store client not once and leaves
\* the store as it was.
C11_ReplayOfBadHandleIsNoOp ==
    [][(ret'.op = "replay" /\ (ret'.handle # "method" \/ ~live))
          => (ret'.printed = <<>> /\ ret'.issued = <<>> /\ db' = db)]_vars

\* replay(cache.store) on a stand-in handle under which two values were
\* stored.
C11_Witness ==
    /\ ret.op = "replay" /\ ret.handle = "method" /\ ~live
    /\ Len(calls) = 2 /\ RedisExists(db, Uuid(2)) = 1
    /\ ret.printed = <<>> /\ ret.issued = <<>>

\* The invocations of calls whose input append has been made: those that
\* returned, those an error ended later than at that append, and the one in
\* progress once it is past the append.
PastInput ==
    { i \in 1..Len(calls) :
        \/ Returned(i)
        \/ calls[i].ret.t = "raise" /\ calls[i].ret.at # "rpush_in"
        \/ calls[i].ret = None /\ pc[calls[i].c] \in {"incr", "set", "rpush_out"} }

\* The invocations of calls whose counter increment has been made.
PastIncr ==
    { i \in 1..Len(calls) :
        \/ Returned(i)
        \/ calls[i].ret.t = "raise" /\ calls[i].ret.at \in {"set", "rpush_out"}
        \/ calls[i].ret = None /\ pc[calls[i].c] \in {"set", "rpush_out"} }

\* The invocations of calls an error ended at step.
FailedAt(step) ==
    { i \in 1..Len(calls) : calls[i].ret.t = "raise" /\ calls[i].ret.at = step }

\* C12 as stated: in one store invocation the counter is incremented before
\* the history is appended to, so the counter is never behind the inputs
\* list, and neither effect depends on the other's success: an invocation
\* whose history append failed is counted all the same, and one whose
\* increment failed has its input and its output appended all the same.
C12_Original ==
    live =>
        /\ Counter >= Len(Inputs)
        /\ pc[1] = "idle" =>
              /\ Counter = Len(calls) - Cardinality(FailedAt("incr"))
              /\ Len(Inputs) >= Len(calls) - Cardinality(FailedAt("rpush_in"))
              /\ Len(Outputs) >= Cardinality(FailedAt("incr"))

\* C12 as amended: in one store invocation the input is appended first, the
\* counter incremented second and the output appended last, and each effect
\* is made only if every client call before it succeeded: the inputs list
\* holds one entry for every invocation past its input append, the counter
\* is the number of invocations past their increment, and the outputs list
\* holds one entry for every invocation that returned. So a failed input
\* append leaves the invocation uncounted, and a failed increment leaves its
\* input recorded with no output.
C12_EffectsInOrder ==
    live =>
        /\ Len(Inputs) = Cardinality(PastInput)
        /\ Counter = Cardinality(PastIncr)
        /\ Len(Outputs) = Cardinality({ i \in 1..Len(calls) : Returned(i) })

\* One invocation ended by a failing input append, the next by a failing
\* increment: nothing is counted and one input is recorded.
C12_Witness ==
    /\ live /\ pc[1] = "idle" /\ Len(calls) = 2
    /\ FailedAt("rpush_in") = {1} /\ FailedAt("incr") = {2}
    /\ Counter = 0 /\ Len(Inputs) = 1 /\ Len(Outputs) = 0

\* C13: replay of the bound method on a live handle prints the header and
\* then as many transcript lines as the shorter of the two lists has
\* entries, the i-th line made of the i-th input, decoded, and the i-th
\* output; the count in the header is the counter's value (0 for no counter
\* key), whatever the lists hold; and the store is left as it was.
C13_ReplayTranscript ==
    [][(ret'.op = "replay" /\ ret'.handle = "method" /\ live) =>
          LET n == IF Len(Inputs) < Len(Outputs) THEN Len(Inputs) ELSE Len(Outputs)
              p == ret'.printed
          IN  /\ Len(p) = n + 1
              /\ p[1].s = QualName.s
                            \o <<32, 119, 97, 115, 32, 99, 97, 108, 108, 101, 100, 32>>
                            \o IntToStr(Counter)
                            \o <<32, 116, 105, 109, 101, 115, 58>>
              /\ \A i \in 1..n :
                    p[i + 1].s = QualName.s \o <<40, 42>> \o Utf8Decode(Inputs[i].b).s
                                  \o <<41, 32, 45, 62, 32>> \o Repr(Outputs[i])
              /\ db' = db]_vars

\* The first invocation was ended by a failing value write and the second
\* returned: replay reports two calls and prints one line, which pairs the
\* first invocation's input with the second one's key.
C13_Witness ==
    /\ ret.op = "replay" /\ ret.handle = "method" /\ live
    /\ Len(calls) = 2 /\ FailedAt("set") = {1} /\ Returned(2)
    /\ Counter = 2 /\ Len(Inputs) = 2 /\ Len(Outputs) = 1
    /\ Len(ret.printed) = 2
    /\ ret.printed[2] = ReplayLine(QualName, InputOf(1), OutputOf(2))

\* The data keys that hold a value.
DataKeys == { k \in UUIDs : RedisExists(db, k) = 1 }

InstrumentKeys == { QualName, InKey(QualName), OutKey(QualName) }

\* C15: the value write of a store invocation goes to a key that held
\* nothing before and is none of the counter key and the two list keys; the
\* write binds that key to the encoded value and changes no other key; and
\* the keys the invocations have returned differ from one another and from
\* the counter key and the list keys.
C15_StoreAddsOneFreshKey ==
    [][/\ used' = used + 1 =>
            \E c \in Callers :
                /\ pc[c] = "set" /\ pc'[c] = "rpush_out"
                /\ LET key == frame'[c].output
                   IN  /\ key \in UUIDs \ InstrumentKeys
                       /\ RedisExists(db, key) = 0
                       /\ db'[KeyBytes[key]] = StringEntry(Encode(frame[c].data))
                       /\ \A k \in KeyNames \ {key} : db'[KeyBytes[k]] = db[KeyBytes[k]]
       /\ \A i \in 1..Len(calls') :
            calls'[i].ret.t = "str" =>
                /\ calls'[i].ret \notin InstrumentKeys
                /\ \A j \in 1..Len(calls') :
                      (j # i /\ calls'[j].ret.t = "str") => calls'[j].ret # calls'[i].ret
      ]_vars

\* Three invocations have returned three keys, each bound to its value.
C15_Witness ==
    /\ live /\ Len(calls) = 3 /\ \A i \in 1..3 : Returned(i)
    /\ Cardinality({ calls[i].ret : i \in 1..3 }) = 3
    /\ \A i \in 1..3 : db[KeyBytes[calls[i].ret]] = StringEntry(Encode(calls[i].data))
    /\ calls[1].data # calls[2].data

\* xs is ys or the beginning of ys.
IsPrefix(xs, ys) == Len(xs) <= Len(ys) /\ \A i \in 1..Len(xs) : xs[i] = ys[i]

\* The step leaves what the store holds under key as it was.
Kept(key) == db'[KeyBytes[key]] = db[KeyBytes[key]]

\* C16: in every step other than a construction the counter does not go
\* down and each of the two lists keeps the entries it had, in their places,
\* with new ones only after them; a get, get_str, get_int or replay leaves
\* the counter and the lists as they were.
C16_InstrumentationOnlyGrows ==
    [][ret'.op # "init" =>
          /\ Kept(QualName) \/ Counter' >= Counter
          /\ Kept(InKey(QualName)) \/ IsPrefix(Inputs, Inputs')
          /\ Kept(OutKey(QualName)) \/ IsPrefix(Outputs, Outputs')
          /\ ret'.op \in {"get", "get_str", "get_int", "replay"} =>
                (Kept(QualName) /\ Kept(InKey(QualName)) /\ Kept(OutKey(QualName)))
      ]_vars

\* Two invocations have left two entries in each list and a counter of two,
\* and a get_int of the counter key has just read it.
C16_Witness ==
    /\ live /\ ret.op = "get_int" /\ ret.val = PyInt(2)
    /\ Counter = 2 /\ Len(Outputs) = 2
    /\ Inputs = <<InputOf(1), InputOf(2)>> /\ InputOf(1) # InputOf(2)

\* C17: unless a Cache was constructed while a store invocation was in
\* progress, in every state, in the middle of invocations too, with callers
\* interleaved and client calls failing, the outputs list is no longer than
\* the counter says and the counter no greater than the length of the
\* inputs list.
\* Checked where constructions are made only between invocations, callers
\* are interleaved at every client call and client calls fail.
C17_OutputsCounterInputs ==
    ~torn => (Len(Outputs) <= Counter /\ Counter <= Len(Inputs))

\* Two callers are in the middle of their invocations, one past its
\* increment and one not, after an invocation that a failing increment
\* ended: the three numbers differ.
C17_Witness ==
    /\ live /\ ~torn /\ Len(calls) = 3
    /\ FailedAt("incr") # {}
    /\ \E c, d \in Callers : pc[c] = "incr" /\ pc[d] = "rpush_out"
    /\ Len(Outputs) < Counter /\ Counter < Len(Inputs)

\* Every invocation since the construction has returned, on a live handle,
\* and no construction fell into one of them.
AllDone ==
    /\ live /\ ~torn
    /\ \A c \in Callers : pc[c] = "idle"
    /\ \A i \in 1..Len(calls) : Returned(i)

\* C18: once the N store invocations that concurrent callers made since
\* the construction have all returned, however their client calls were
\* interleaved, the counter is N and each list has N entries; the outputs
\* list holds every returned key once, and the inputs list holds every
\* serialized argument tuple as many times as it was passed, whatever the
\* order of either list.
C18_NoLostUpdate ==
    AllDone =>
        LET N == 1..Len(calls)
        IN  /\ Counter = Len(calls)
            /\ Len(Inputs) = Len(calls)
            /\ Len(Outputs) = Len(calls)
            /\ \A i \in N : Cardinality({ j \in N : Outputs[j] = OutputOf(i) }) = 1
            /\ \A i \in N : Cardinality({ j \in N : Inputs[j] = InputOf(i) })
                                = Cardinality({ j \in N : InputOf(j) = InputOf(i) })

\* Three invocations by two callers have returned; the first to enter was
\* the last to return, so the first line of the lists pairs its input with
\* another invocation's key.
C18_Witness ==
    /\ AllDone /\ Len(calls) = 3
    /\ { calls[i].c : i \in 1..3 } = Callers
    /\ Inputs[1] = InputOf(1) /\ Outputs[3] = OutputOf(1)
    /\ Counter = 3

====
